---- MODULE Spec2Model ----
(***************************************************************************)
(* Transport layer of loco's MCP client (src/src/loco/mcp/transport.py):   *)
(* StdioTransport, SSETransport, ProcessTransport and HTTPTransport, run   *)
(* by cooperating asyncio tasks.  One transport instance is modelled per   *)
(* behaviour; `kind' says which class it is.  A step is the code that one  *)
(* task runs between two suspension points (await / yield).                *)
(***************************************************************************)
EXTENDS Integers, Sequences, FiniteSets, TLC

(* ------------------------------ bounds -------------------------------- *)
MaxCalls == 3        \* send/receive/close calls started on the transport
MaxIn == 3           \* lines / messages the peer of stdin or a queue produces
MaxOut == 2          \* lines the children write to their stdout
HighWater == 1       \* buffered lines up to which drain() does not wait
MaxTracked == 2      \* calls and file reads recorded in one CostProfile
MaxProfiles == 2     \* CostProfile objects the tracker creates
MaxDepth == 2        \* track_operation / track_agent blocks open at once

Tasks == {"t1", "t2"}
Kinds == {"stdio", "sse", "process", "http"}
\* the values a message's id may have, in order
Numerals == <<"1", "2", "3", "4", "5", "6">>
\* as many of them as the callers or a peer can use
MaxNum == IF MaxCalls > MaxIn THEN MaxCalls ELSE MaxIn
Digits == {Numerals[i] : i \in 1..MaxNum}
Msgs == {[id |-> d] : d \in Digits}

NoMsg == [id |-> "none"]
ParseError == [id |-> "JSONDecodeError"]

(* ------------------------------ framing ------------------------------- *)
\* json.dumps(message): the text of the message, as a sequence of tokens
JsonDumps(m) == <<"{", "id", ":", m.id, "}">>

\* json.loads(text): the message, or ParseError (json.JSONDecodeError)
JsonLoads(s) ==
    IF Len(s) = 5 /\ s[1] = "{" /\ s[2] = "id" /\ s[3] = ":"
          /\ s[4] \in Digits /\ s[5] = "}"
    THEN [id |-> s[4]]
    ELSE ParseError

Whitespace == {" ", "\n"}

RECURSIVE LStrip(_)
LStrip(s) == IF s # <<>> /\ Head(s) \in Whitespace THEN LStrip(Tail(s)) ELSE s

RECURSIVE RStrip(_)
RStrip(s) ==
    IF s # <<>> /\ s[Len(s)] \in Whitespace
    THEN RStrip(SubSeq(s, 1, Len(s) - 1)) ELSE s

\* line.decode('utf-8').strip()
Strip(s) == RStrip(LStrip(s))

\* the line without its terminator
SendLineBare(m) == JsonDumps(m)

\* json.dumps(message) + "\n"
SendLine(m) == JsonDumps(m) \o <<"\n">>

\* what a peer may put on an inbound line
BadLine == <<"not", " ", "json", "\n">>
BlankLine == <<" ", "\n">>
\* the n-th line of a peer: its next message, garbage, or a blank line;
\* the messages of a peer, and of the callers, are numbered in order
InMsg(n) == [id |-> Numerals[n + 1]]
\* the number of a message
Ordinal(m) == CHOOSE i \in 1..MaxNum : Numerals[i] = m.id
InLines(n) == {SendLine(InMsg(n)), BadLine, BlankLine}

(* One pass of the receive loop of the stream transports, from the point  *)
(* named, up to the next suspension point.  buf is what the stream holds,  *)
(* eof whether the stream has ended.  Result: k = "yield" (msg is yielded),*)
(* "closed" (loop condition false), "eof" (empty read, break), "error"     *)
(* (exception logged, break) or "wait" (readline suspends).                *)
RECURSIVE LoopHead(_, _, _)
RECURSIVE AfterLine(_, _, _, _)
LoopHead(buf, eof, isClosed) ==
    IF isClosed THEN [k |-> "closed", msg |-> NoMsg, rest |-> buf]
    ELSE IF buf = <<>>
         THEN IF eof THEN [k |-> "eof", msg |-> NoMsg, rest |-> buf]
                     ELSE [k |-> "wait", msg |-> NoMsg, rest |-> buf]
         ELSE AfterLine(Head(buf), Tail(buf), eof, isClosed)

\* the loop taking a blank line for the end of the stream
AfterLineBlankEnds(line, rest, eof, isClosed) ==
    LET line_str == Strip(line) IN
    IF line_str = <<>> THEN [k |-> "eof", msg |-> NoMsg, rest |-> rest]
    ELSE IF JsonLoads(line_str) = ParseError
         THEN [k |-> "error", msg |-> NoMsg, rest |-> rest]
         ELSE [k |-> "yield", msg |-> JsonLoads(line_str), rest |-> rest]

AfterLine(line, rest, eof, isClosed) ==
    LET line_str == Strip(line) IN
    IF line_str = <<>> THEN LoopHead(rest, eof, isClosed)
    ELSE IF JsonLoads(line_str) = ParseError
         THEN [k |-> "error", msg |-> NoMsg, rest |-> rest]
         ELSE [k |-> "yield", msg |-> JsonLoads(line_str), rest |-> rest]

\* readline() returning: a line if there is one, the empty read at eof
ReadReturn(buf, eof, isClosed) ==
    IF buf = <<>> THEN [k |-> "eof", msg |-> NoMsg, rest |-> buf]
    ELSE AfterLine(Head(buf), Tail(buf), eof, isClosed)

(* ------------------------------- state -------------------------------- *)
VARIABLES
    kind,       \* which transport class the instance is
    closed,     \* self._closed
    pc,         \* per task: "idle" or the suspension point it is at
    op,         \* per task: the call it is in / was last in
    ret,        \* per task: how its last finished call ended
    calls,      \* calls started so far
    closes,     \* close() calls that have returned
    arg,        \* per task: the message of its current send()
    yielded,    \* per task: messages yielded by its current receive()
    errlog,     \* lines written to sys.stderr
    reader,     \* StdioTransport._reader is not None
    attaches,   \* connect_read_pipe calls completed
    stdout,     \* lines written to sys.stdout
    inbuf,      \* lines waiting in the stdin reader
    ineof,      \* stdin has ended
    produced,   \* lines the peer (stdin writer, feeder, children) has produced
    sendq,      \* SSETransport._send_queue
    recvq,      \* _receive_queue (SSETransport, HTTPTransport)
    process,    \* ProcessTransport._process: 0 (None) or a child's number
    child,      \* the children spawned so far, in spawn order
    cur,        \* per task: the child its pending await belongs to
    clog,       \* per task: what its current close() has done, in order
    session,    \* HTTPTransport._session: "none", "open" or "closed"
    sessions,   \* ClientSession objects created
    posts,      \* POST requests issued
    body,       \* per task: response lines its send() has still to read
    resp,       \* per task: the response its send() got (status, body)
    raised,     \* per task: what the HTTP error of its send() carries
    enabled,    \* CostTracker._enabled
    profile,    \* CostTracker._profile: NoProfile (None) or a CostProfile
    profiles,   \* CostProfile objects created
    current_operation,  \* the context variable _current_operation
    current_agent,      \* the context variable _current_agent
    frames,     \* the track_operation / track_agent blocks that are open
    last        \* the last call made on the tracker or a block

\* no response yet / no HTTP error raised
NoResp == [status |-> 0, text |-> <<>>]

taskVars == <<pc, op, ret, calls, closes, arg, yielded>>
stdioVars == <<reader, attaches, stdout, inbuf, ineof>>
queueVars == <<sendq, recvq>>
procVars == <<process, child, cur>>
httpVars == <<session, sessions, posts, body, resp, raised>>
others == <<procVars, httpVars>>
telVars == <<enabled, profile, profiles, current_operation, current_agent,
             frames, last>>
transportVars == <<kind, closed, taskVars, errlog, stdioVars, produced,
                   queueVars, procVars, clog, httpVars>>
vars == <<transportVars, telVars>>

(* The cost tracker of src/src/loco/telemetry.py: the CostTracker          *)
(* singleton, its CostProfile, and the context variables that the          *)
(* track_operation / track_agent blocks set.  Its calls are synchronous:   *)
(* each is one step.                                                       *)
\* OperationType values passed to track_operation; Unknown is the default
Unknown == "unknown"
Operations == {Unknown, "search:grep", "planning"}
\* agent names passed to track_agent; NoAgent is the default (None)
NoAgent == "None"
Agents == {"explore"}
\* paths passed to track_file_read
Paths == {"a.py", "b.py"}

\* CostTracker._profile is None
NoProfile ==
    [session_id |-> 0, calls |-> <<>>, files_read |-> [p \in Paths |-> 0]]
\* CostProfile(session_id = ..., start_time = ...): the n-th profile created;
\* files_read[p] = 0 stands for a path that is not a key of the dict
CostProfile(n) ==
    [session_id |-> n, calls |-> <<>>, files_read |-> [p \in Paths |-> 0]]

\* the default of a context variable
Default(v) == IF v = "operation" THEN Unknown ELSE NoAgent

InitTracker ==
    /\ enabled = FALSE
    /\ profile = NoProfile
    /\ profiles = 0
    /\ current_operation = Unknown
    /\ current_agent = NoAgent
    /\ frames = <<>>
    /\ last = "none"

Init ==
    /\ kind \in Kinds
    /\ closed = FALSE
    /\ pc = [t \in Tasks |-> "idle"]
    /\ op = [t \in Tasks |-> "none"]
    /\ ret = [t \in Tasks |-> "none"]
    /\ calls = 0
    /\ closes = 0
    /\ arg = [t \in Tasks |-> NoMsg]
    /\ yielded = [t \in Tasks |-> <<>>]
    /\ errlog = 0
    /\ reader = FALSE
    /\ attaches = 0
    /\ stdout = <<>>
    /\ inbuf = <<>>
    /\ ineof = FALSE
    /\ produced = 0
    /\ sendq = <<>>
    /\ recvq = <<>>
    /\ process = 0
    /\ child = <<>>
    /\ cur = [t \in Tasks |-> 0]
    /\ clog = [t \in Tasks |-> <<>>]
    /\ session = "none"
    /\ sessions = 0
    /\ posts = 0
    /\ body = [t \in Tasks |-> <<>>]
    /\ resp = [t \in Tasks |-> NoResp]
    /\ raised = [t \in Tasks |-> NoResp]
    /\ InitTracker

(* ---------------------------- task helpers ---------------------------- *)
\* task t, idle, starts the call o
Invoke(t, o) ==
    /\ pc[t] = "idle"
    /\ calls = 0 => t = "t1"   \* the tasks are alike: t1 calls first
    /\ calls < MaxCalls
    /\ calls' = calls + 1
    /\ op' = [op EXCEPT ![t] = o]

\* task t suspends at p
Goto(t, p) ==
    /\ pc' = [pc EXCEPT ![t] = p]
    /\ UNCHANGED <<ret, closes>>

\* task t's call ends with outcome r ("ok" or the exception raised)
Finish(t, r) ==
    /\ pc' = [pc EXCEPT ![t] = "idle"]
    /\ ret' = [ret EXCEPT ![t] = r]
    /\ closes' = closes

\* task t's close() returns
Return(t) ==
    /\ pc' = [pc EXCEPT ![t] = "idle"]
    /\ ret' = [ret EXCEPT ![t] = "ok"]
    /\ closes' = closes + 1

\* an entry of a close() log: what was done, and to which child; the
\* first entry, "begin", holds the number of close() calls returned before
Ev(e, c) == [e |-> e, c |-> c]

\* another task is suspended in readline() at p
OtherWaiting(t, p) == \E u \in Tasks \ {t} : pc[u] = p

(* --------------------------- StdioTransport --------------------------- *)
StdioSend(t, m) ==
    /\ kind = "stdio"
    /\ Invoke(t, "send")
    /\ IF closed
       THEN /\ Finish(t, "TransportClosed")
            /\ UNCHANGED stdout
       ELSE /\ Finish(t, "ok")
            /\ stdout' = Append(stdout, SendLine(m))
    /\ UNCHANGED telVars
    /\ UNCHANGED <<kind, closed, arg, yielded, errlog, reader, attaches,
                   inbuf, ineof, produced, queueVars, clog, others>>

\* the loop of receive() from its head: until connect_read_pipe has
\* completed the reader holds no data, whatever the peer has written
StdioHead ==
    IF attaches > 0 THEN LoopHead(inbuf, ineof, closed)
    ELSE [LoopHead(<<>>, FALSE, closed) EXCEPT !.rest = inbuf]

\* the receive loop of StdioTransport continues with outcome r for task t,
\* y being what the call has yielded before
StdioLoop(t, r, y) ==
    /\ inbuf' = r.rest
    /\ CASE r.k = "yield" ->
              /\ yielded' = [yielded EXCEPT ![t] = Append(y, r.msg)]
              /\ Goto(t, "stdio_yield")
              /\ UNCHANGED errlog
         [] r.k = "wait" /\ ~OtherWaiting(t, "stdio_read") ->
              /\ yielded' = [yielded EXCEPT ![t] = y]
              /\ Goto(t, "stdio_read")
              /\ UNCHANGED errlog
         [] r.k = "wait" /\ OtherWaiting(t, "stdio_read") ->
              \* readline() raises RuntimeError: caught, logged, break
              /\ yielded' = [yielded EXCEPT ![t] = y]
              /\ Finish(t, "ok")
              /\ errlog' = errlog + 1
         [] r.k = "error" ->
              /\ yielded' = [yielded EXCEPT ![t] = y]
              /\ Finish(t, "ok")
              /\ errlog' = errlog + 1
         [] r.k \in {"closed", "eof"} ->
              /\ yielded' = [yielded EXCEPT ![t] = y]
              /\ Finish(t, "ok")
              /\ UNCHANGED errlog

\* receive() whose _setup() keeps the reader only once the pipe is
\* connected: until then a later call finds none and sets up again
StdioReceiveLateReader(t) ==
    /\ kind = "stdio"
    /\ Invoke(t, "receive")
    /\ IF attaches = 0
       THEN /\ reader' = TRUE
            /\ Goto(t, "stdio_setup")
            /\ yielded' = [yielded EXCEPT ![t] = <<>>]
            /\ UNCHANGED <<errlog, inbuf>>
       ELSE /\ reader' = reader
            /\ StdioLoop(t, StdioHead, <<>>)
    /\ UNCHANGED telVars
    /\ UNCHANGED <<kind, closed, arg, attaches, stdout, ineof, produced,
                   queueVars, clog, others>>

StdioReceive(t) ==
    /\ kind = "stdio"
    /\ Invoke(t, "receive")
    /\ IF ~reader
       THEN \* _setup(): the reader is created, connect_read_pipe awaited
            /\ reader' = TRUE
            /\ Goto(t, "stdio_setup")
            /\ yielded' = [yielded EXCEPT ![t] = <<>>]
            /\ UNCHANGED <<errlog, inbuf>>
       ELSE /\ reader' = reader
            /\ StdioLoop(t, StdioHead, <<>>)
    /\ UNCHANGED telVars
    /\ UNCHANGED <<kind, closed, arg, attaches, stdout, ineof, produced,
                   queueVars, clog, others>>

\* connect_read_pipe completes; the loop is entered
StdioSetupDone(t) ==
    /\ kind = "stdio"
    /\ pc[t] = "stdio_setup"
    /\ attaches' = attaches + 1
    /\ StdioLoop(t, StdioHead, yielded[t])
    /\ UNCHANGED telVars
    /\ UNCHANGED <<kind, closed, op, calls, arg, reader, stdout, ineof,
                   produced, queueVars, clog, others>>

\* the consumer asks for the next message: the loop condition is re-tested
StdioResume(t) ==
    /\ kind = "stdio"
    /\ pc[t] = "stdio_yield"
    /\ StdioLoop(t, StdioHead, yielded[t])
    /\ UNCHANGED telVars
    /\ UNCHANGED <<kind, closed, op, calls, arg, reader, attaches, stdout,
                   ineof, produced, queueVars, clog, others>>

\* a suspended readline() returns
StdioRead(t) ==
    /\ kind = "stdio"
    /\ pc[t] = "stdio_read"
    /\ attaches > 0
    /\ inbuf # <<>> \/ ineof
    /\ StdioLoop(t, ReadReturn(inbuf, ineof, closed), yielded[t])
    /\ UNCHANGED telVars
    /\ UNCHANGED <<kind, closed, op, calls, arg, reader, attaches, stdout,
                   ineof, produced, queueVars, clog, others>>

\* close() that flips the flag instead of setting it
StdioCloseToggle(t) ==
    /\ kind = "stdio"
    /\ Invoke(t, "close")
    /\ closed' = ~closed
    /\ Return(t)
    /\ clog' = [clog EXCEPT ![t] = <<Ev("begin", closes)>>]
    /\ UNCHANGED telVars
    /\ UNCHANGED <<kind, arg, yielded, errlog, stdioVars, produced, queueVars,
                   others>>

StdioClose(t) ==
    /\ kind = "stdio"
    /\ Invoke(t, "close")
    /\ closed' = TRUE
    /\ Return(t)
    /\ clog' = [clog EXCEPT ![t] = <<Ev("begin", closes)>>]
    /\ UNCHANGED telVars
    /\ UNCHANGED <<kind, arg, yielded, errlog, stdioVars, produced, queueVars,
                   others>>

\* the peer writes a line to this program's stdin, or ends it
PeerWrite(l) ==
    /\ kind = "stdio"
    /\ ~ineof
    /\ produced < MaxIn
    /\ produced' = produced + 1
    /\ inbuf' = Append(inbuf, l)
    /\ UNCHANGED telVars
    /\ UNCHANGED <<kind, closed, taskVars, errlog, reader, attaches, stdout,
                   ineof, queueVars, clog, others>>

PeerEof ==
    /\ kind = "stdio"
    /\ ~ineof
    /\ ineof' = TRUE
    /\ UNCHANGED telVars
    /\ UNCHANGED <<kind, closed, taskVars, errlog, reader, attaches, stdout,
                   inbuf, produced, queueVars, clog, others>>

NextStdio ==
    \/ \E t \in Tasks, m \in {InMsg(calls)} : StdioSend(t, m)
    \/ \E t \in Tasks : StdioReceive(t)
    \/ \E t \in Tasks : StdioSetupDone(t)
    \/ \E t \in Tasks : StdioResume(t)
    \/ \E t \in Tasks : StdioRead(t)
    \/ \E t \in Tasks : StdioClose(t)
    \/ \E l \in InLines(produced) : PeerWrite(l)
    \/ PeerEof

(* -------------------------- ProcessTransport -------------------------- *)
(* A child: st is "running" or "exited"; sin is the state of the pipe to   *)
(* its stdin as the StreamWriter sees it: "open", "closing" (close() was   *)
(* called with data still buffered), "closed" (connection lost cleanly) or *)
(* "broken" (lost with buffered data: BrokenPipeError); wbuf is the data   *)
(* buffered by the writer, wire the lines the pipe has taken, out the      *)
(* lines of its stdout not read yet; terms and kills count the signals.    *)
NewChild ==
    [st |-> "running", sin |-> "open", wbuf |-> <<>>, wire |-> <<>>,
     out |-> <<>>, terms |-> 0, kills |-> 0]

Running(c) == child[c].st = "running"

\* stdin.write(data) that puts the data inside the line buffered last
WriteOutcomesInterleaved(ch, line) ==
    IF ch.sin # "open" THEN {ch}
    ELSE IF ch.wbuf = <<>>
         THEN {[ch EXCEPT !.wire = Append(@, line)],
               [ch EXCEPT !.wbuf = <<line>>]}
         ELSE {[ch EXCEPT !.wbuf[Len(ch.wbuf)] =
                              <<Head(@)>> \o line \o Tail(@)]}

\* stdin.write(data): the pipe takes the line, or (the pipe is full, the
\* line is larger than the room left) it is buffered; on a pipe that is
\* closing or lost the data is dropped
WriteOutcomes(ch, line) ==
    IF ch.sin # "open" THEN {ch}
    ELSE IF ch.wbuf = <<>>
         THEN {[ch EXCEPT !.wire = Append(@, line)],
               [ch EXCEPT !.wbuf = <<line>>]}
         ELSE {[ch EXCEPT !.wbuf = Append(@, line)]}

\* stdin.close(): nothing buffered - the connection is lost cleanly;
\* otherwise that waits for the buffer to be flushed
StdinClose(ch) ==
    IF ch.sin # "open" THEN ch
    ELSE IF ch.wbuf = <<>> THEN [ch EXCEPT !.sin = "closed"]
         ELSE [ch EXCEPT !.sin = "closing"]

\* lines 164-166 of send(): write the line to child c of ch0 and drain
ProcWriteDrain(t, c, m, ch0) ==
    \E nc \in WriteOutcomes(ch0[c], SendLine(m)) :
        /\ child' = [ch0 EXCEPT ![c] = nc]
        /\ IF nc.sin \in {"closed", "broken"}
           THEN /\ Finish(t, "ConnectionResetError")
                /\ cur' = [cur EXCEPT ![t] = 0]
           ELSE IF Len(nc.wbuf) <= HighWater
           THEN /\ Finish(t, "ok")
                /\ cur' = [cur EXCEPT ![t] = 0]
           ELSE /\ Goto(t, "proc_drain")
                /\ cur' = [cur EXCEPT ![t] = c]

\* the receive loop of ProcessTransport for task t: the line read (if
\* readFrom is a child, a suspended readline() on it returns) and then
\* the loop on self._process, here p of ch0; y: what was yielded before
ProcLoop(t, p, ch0, r, y) ==
    /\ child' = [ch0 EXCEPT ![p].out = r.rest]
    /\ CASE r.k = "yield" ->
              /\ yielded' = [yielded EXCEPT ![t] = Append(y, r.msg)]
              /\ Goto(t, "proc_yield")
              /\ cur' = [cur EXCEPT ![t] = 0]
              /\ UNCHANGED errlog
         [] r.k = "wait"
              /\ ~\E u \in Tasks \ {t} : pc[u] = "proc_read" /\ cur[u] = p ->
              /\ yielded' = [yielded EXCEPT ![t] = y]
              /\ Goto(t, "proc_read")
              /\ cur' = [cur EXCEPT ![t] = p]
              /\ UNCHANGED errlog
         [] r.k = "wait"
              /\ \E u \in Tasks \ {t} : pc[u] = "proc_read" /\ cur[u] = p ->
              \* readline() raises RuntimeError: caught, logged, break
              /\ yielded' = [yielded EXCEPT ![t] = y]
              /\ Finish(t, "ok")
              /\ cur' = [cur EXCEPT ![t] = 0]
              /\ errlog' = errlog + 1
         [] r.k = "error" ->
              /\ yielded' = [yielded EXCEPT ![t] = y]
              /\ Finish(t, "ok")
              /\ cur' = [cur EXCEPT ![t] = 0]
              /\ errlog' = errlog + 1
         [] r.k \in {"closed", "eof"} ->
              /\ yielded' = [yielded EXCEPT ![t] = y]
              /\ Finish(t, "ok")
              /\ cur' = [cur EXCEPT ![t] = 0]
              /\ UNCHANGED errlog

ChildLoopHead(p, ch0) == LoopHead(ch0[p].out, ch0[p].st = "exited", closed)

ProcSend(t, m) ==
    /\ kind = "process"
    /\ Invoke(t, "send")
    /\ IF closed
       THEN /\ Finish(t, "TransportClosed")
            /\ UNCHANGED <<arg, child, cur>>
       ELSE IF process = 0
       THEN \* _ensure_process(): create_subprocess_exec is awaited
            /\ Goto(t, "proc_spawn")
            /\ arg' = [arg EXCEPT ![t] = m]
            /\ UNCHANGED <<child, cur>>
       ELSE /\ ProcWriteDrain(t, process, m, child)
            /\ UNCHANGED arg
    /\ UNCHANGED telVars
    /\ UNCHANGED <<httpVars, kind, closed, yielded, errlog, stdioVars,
                   produced, queueVars, process, clog>>

ProcReceive(t) ==
    /\ kind = "process"
    /\ Invoke(t, "receive")
    /\ IF process = 0
       THEN /\ Goto(t, "proc_spawn")
            /\ yielded' = [yielded EXCEPT ![t] = <<>>]
            /\ UNCHANGED <<child, cur, errlog>>
       ELSE ProcLoop(t, process, child, ChildLoopHead(process, child), <<>>)
    /\ UNCHANGED telVars
    /\ UNCHANGED <<httpVars, kind, closed, arg, stdioVars, produced,
                   queueVars, process, clog>>

\* create_subprocess_exec returns: the new child is assigned to _process
\* and the caller (send or receive) goes on
ProcSpawned(t) ==
    /\ kind = "process"
    /\ pc[t] = "proc_spawn"
    /\ LET ch0 == Append(child, NewChild)
           p == Len(child) + 1
       IN /\ process' = p
          /\ IF op[t] = "send"
             THEN /\ ProcWriteDrain(t, p, arg[t], ch0)
                  /\ arg' = [arg EXCEPT ![t] = NoMsg]
                  /\ UNCHANGED <<yielded, errlog>>
             ELSE /\ ProcLoop(t, p, ch0, ChildLoopHead(p, ch0), yielded[t])
                  /\ UNCHANGED arg
    /\ UNCHANGED telVars
    /\ UNCHANGED <<httpVars, kind, closed, op, calls, stdioVars, produced,
                   queueVars, clog>>

\* drain() resumes: the buffer went down, or the connection was lost
ProcDrained(t) ==
    /\ kind = "process"
    /\ pc[t] = "proc_drain"
    /\ \/ /\ child[cur[t]].sin \in {"closed", "broken"}
          /\ Finish(t, "ConnectionResetError")
       \/ /\ child[cur[t]].sin \in {"open", "closing"}
          /\ Len(child[cur[t]].wbuf) <= HighWater
          /\ Finish(t, "ok")
    /\ cur' = [cur EXCEPT ![t] = 0]
    /\ UNCHANGED telVars
    /\ UNCHANGED <<httpVars, kind, closed, op, calls, arg, yielded, errlog,
                   stdioVars, produced, queueVars, process, child, clog>>

\* the consumer asks for the next message
ProcResume(t) ==
    /\ kind = "process"
    /\ pc[t] = "proc_yield"
    /\ ProcLoop(t, process, child, ChildLoopHead(process, child), yielded[t])
    /\ UNCHANGED telVars
    /\ UNCHANGED <<httpVars, kind, closed, op, calls, arg, stdioVars,
                   produced, queueVars, process, clog>>

\* a suspended readline() on child cur[t] returns
ProcRead(t) ==
    /\ kind = "process"
    /\ pc[t] = "proc_read"
    /\ LET c == cur[t]
           b == child[c].out
       IN /\ b # <<>> \/ ~Running(c)
          /\ IF b # <<>> /\ Strip(Head(b)) = <<>>
             THEN \* blank line: continue, the loop goes on with _process
                  LET ch0 == [child EXCEPT ![c].out = Tail(b)]
                  IN ProcLoop(t, process, ch0, ChildLoopHead(process, ch0),
                              yielded[t])
             ELSE ProcLoop(t, c, child, ReadReturn(b, ~Running(c), closed),
                           yielded[t])
    /\ UNCHANGED telVars
    /\ UNCHANGED <<httpVars, kind, closed, op, calls, arg, stdioVars,
                   produced, queueVars, process, clog>>

\* close() that starts the child, to stop it, when there is none
ProcCloseSpawns(t) ==
    /\ kind = "process"
    /\ Invoke(t, "close")
    /\ closed' = TRUE
    /\ IF process = 0
       THEN /\ child' = Append(child, [NewChild EXCEPT !.terms = 1])
            /\ process' = Len(child) + 1
            /\ Goto(t, "proc_wait2")
            /\ cur' = [cur EXCEPT ![t] = Len(child) + 1]
            /\ clog' = [clog EXCEPT ![t] = <<Ev("begin", closes)>>]
       ELSE /\ child' = [child EXCEPT ![process] = StdinClose(@)]
            /\ process' = process
            /\ Goto(t, "proc_wait_closed")
            /\ cur' = [cur EXCEPT ![t] = process]
            /\ clog' = [clog EXCEPT ![t] =
                          <<Ev("begin", closes), Ev("stdin_close", process)>>]
    /\ UNCHANGED telVars
    /\ UNCHANGED <<httpVars, kind, arg, yielded, errlog, stdioVars, produced,
                   queueVars>>

ProcClose(t) ==
    /\ kind = "process"
    /\ Invoke(t, "close")
    /\ closed' = TRUE
    /\ IF process = 0
       THEN /\ Return(t)
            /\ clog' = [clog EXCEPT ![t] = <<Ev("begin", closes)>>]
            /\ UNCHANGED <<child, cur>>
       ELSE \* stdin.close(); wait_closed() is awaited
            /\ child' = [child EXCEPT ![process] = StdinClose(@)]
            /\ Goto(t, "proc_wait_closed")
            /\ cur' = [cur EXCEPT ![t] = process]
            /\ clog' = [clog EXCEPT ![t] =
                          <<Ev("begin", closes), Ev("stdin_close", process)>>]
    /\ UNCHANGED telVars
    /\ UNCHANGED <<httpVars, kind, arg, yielded, errlog, stdioVars, produced,
                   queueVars, process>>

\* wait_closed() returns or raises; then _process.wait() is awaited (5s)
ProcWaitClosed(t) ==
    /\ kind = "process"
    /\ pc[t] = "proc_wait_closed"
    /\ \/ /\ child[cur[t]].sin = "closed"
          /\ Goto(t, "proc_wait1")
          /\ cur' = [cur EXCEPT ![t] = process]
       \/ /\ child[cur[t]].sin = "broken"
          /\ Finish(t, "BrokenPipeError")
          /\ cur' = [cur EXCEPT ![t] = 0]
    /\ UNCHANGED telVars
    /\ UNCHANGED <<httpVars, kind, closed, op, calls, arg, yielded, errlog,
                   stdioVars, produced, queueVars, process, child, clog>>

\* close() that goes on to terminate() although the first wait returned
ProcWaitDoneSignals(t) ==
    /\ kind = "process"
    /\ pc[t] \in {"proc_wait1", "proc_wait2", "proc_wait3"}
    /\ ~Running(cur[t])
    /\ IF pc[t] = "proc_wait1"
       THEN /\ child' = [child EXCEPT ![process].terms = @ + 1]
            /\ Goto(t, "proc_wait2")
            /\ cur' = [cur EXCEPT ![t] = process]
            /\ clog' = [clog EXCEPT ![t] = @ \o
                          <<Ev("exited", cur[t]), Ev("terminate", process)>>]
       ELSE /\ Return(t)
            /\ clog' = [clog EXCEPT ![t] = Append(@, Ev("exited", cur[t]))]
            /\ cur' = [cur EXCEPT ![t] = 0]
            /\ UNCHANGED child
    /\ UNCHANGED telVars
    /\ UNCHANGED <<httpVars, kind, closed, op, calls, arg, yielded, errlog,
                   stdioVars, produced, queueVars, process>>

\* the awaited child has exited: wait() returns, close() returns
ProcWaitDone(t) ==
    /\ kind = "process"
    /\ pc[t] \in {"proc_wait1", "proc_wait2", "proc_wait3"}
    /\ ~Running(cur[t])
    /\ Return(t)
    /\ clog' = [clog EXCEPT ![t] = Append(@, Ev("exited", cur[t]))]
    /\ cur' = [cur EXCEPT ![t] = 0]
    /\ UNCHANGED telVars
    /\ UNCHANGED <<httpVars, kind, closed, op, calls, arg, yielded, errlog,
                   stdioVars, produced, queueVars, process, child>>

\* the first wait times out: _process.terminate(), then wait (2s)
ProcTimeout1(t) ==
    /\ kind = "process"
    /\ pc[t] = "proc_wait1"
    /\ Running(cur[t])
    /\ IF Running(process)
       THEN /\ child' = [child EXCEPT ![process].terms = @ + 1]
            /\ Goto(t, "proc_wait2")
            /\ cur' = [cur EXCEPT ![t] = process]
            /\ clog' = [clog EXCEPT ![t] = @ \o
                          <<Ev("timeout5", cur[t]), Ev("terminate", process)>>]
       ELSE \* terminate() on an exited process: ProcessLookupError
            /\ Finish(t, "ProcessLookupError")
            /\ cur' = [cur EXCEPT ![t] = 0]
            /\ clog' = [clog EXCEPT ![t] = Append(@, Ev("timeout5", cur[t]))]
            /\ UNCHANGED child
    /\ UNCHANGED telVars
    /\ UNCHANGED <<httpVars, kind, closed, op, calls, arg, yielded, errlog,
                   stdioVars, produced, queueVars, process>>

\* the second wait times out: _process.kill(), then wait without limit
ProcTimeout2(t) ==
    /\ kind = "process"
    /\ pc[t] = "proc_wait2"
    /\ Running(cur[t])
    /\ IF Running(process)
       THEN /\ child' = [child EXCEPT ![process].kills = @ + 1]
            /\ Goto(t, "proc_wait3")
            /\ cur' = [cur EXCEPT ![t] = process]
            /\ clog' = [clog EXCEPT ![t] = @ \o
                          <<Ev("timeout2", cur[t]), Ev("kill", process)>>]
       ELSE /\ Finish(t, "ProcessLookupError")
            /\ cur' = [cur EXCEPT ![t] = 0]
            /\ clog' = [clog EXCEPT ![t] = Append(@, Ev("timeout2", cur[t]))]
            /\ UNCHANGED child
    /\ UNCHANGED telVars
    /\ UNCHANGED <<httpVars, kind, closed, op, calls, arg, yielded, errlog,
                   stdioVars, produced, queueVars, process>>

\* the child writes a line to its stdout
ChildWrite(c, l) ==
    /\ kind = "process"
    /\ c \in DOMAIN child
    /\ Running(c)
    /\ produced < MaxOut
    /\ produced' = produced + 1
    /\ child' = [child EXCEPT ![c].out = Append(@, l)]
    /\ UNCHANGED telVars
    /\ UNCHANGED <<httpVars, kind, closed, taskVars, errlog, stdioVars,
                   queueVars, process, cur, clog>>

\* the child reads its stdin: the pipe takes the next buffered line
PipeFlush(c) ==
    /\ kind = "process"
    /\ c \in DOMAIN child
    /\ Running(c)
    /\ child[c].sin \in {"open", "closing"}
    /\ child[c].wbuf # <<>>
    /\ child' = [child EXCEPT ![c] =
                   [@ EXCEPT !.wire = Append(@, Head(child[c].wbuf)),
                             !.wbuf = Tail(@),
                             !.sin = IF @ = "closing" /\ Len(child[c].wbuf) = 1
                                     THEN "closed" ELSE @]]
    /\ UNCHANGED telVars
    /\ UNCHANGED <<httpVars, kind, closed, taskVars, errlog, stdioVars,
                   produced, queueVars, process, cur, clog>>

\* the child exits (by itself, on EOF, on a signal): its end of the pipe
\* closes, which loses the connection - with an error if data is buffered
ChildExit(c) ==
    /\ kind = "process"
    /\ c \in DOMAIN child
    /\ Running(c)
    /\ child' = [child EXCEPT ![c] =
                   [@ EXCEPT !.st = "exited",
                             !.wbuf = <<>>,
                             !.sin = IF child[c].wbuf # <<>> THEN "broken"
                                     ELSE "closed"]]
    /\ UNCHANGED telVars
    /\ UNCHANGED <<httpVars, kind, closed, taskVars, errlog, stdioVars,
                   produced, queueVars, process, cur, clog>>

NextProc ==
    \/ \E t \in Tasks, m \in {InMsg(calls)} : ProcSend(t, m)
    \/ \E t \in Tasks : ProcReceive(t)
    \/ \E t \in Tasks : ProcSpawned(t)
    \/ \E t \in Tasks : ProcDrained(t)
    \/ \E t \in Tasks : ProcResume(t)
    \/ \E t \in Tasks : ProcRead(t)
    \/ \E t \in Tasks : ProcClose(t)
    \/ \E t \in Tasks : ProcWaitClosed(t)
    \/ \E t \in Tasks : ProcWaitDone(t)
    \/ \E t \in Tasks : ProcTimeout1(t)
    \/ \E t \in Tasks : ProcTimeout2(t)
    \/ \E c \in 1..2, l \in InLines(produced) : ChildWrite(c, l)
    \/ \E c \in 1..2 : PipeFlush(c)
    \/ \E c \in 1..2 : ChildExit(c)

(* ---------------------------- SSETransport ---------------------------- *)
\* the polling loop of receive() from its head, for either queue transport:
\* the loop ends when closed, else wait_for(queue.get(), timeout) is awaited
QueueLoop(t, getting) ==
    IF closed THEN Finish(t, "ok") ELSE Goto(t, getting)

SSESend(t, m) ==
    /\ kind = "sse"
    /\ Invoke(t, "send")
    /\ IF closed
       THEN /\ Finish(t, "TransportClosed")
            /\ UNCHANGED sendq
       ELSE /\ Finish(t, "ok")
            /\ sendq' = Append(sendq, m)
    /\ UNCHANGED telVars
    /\ UNCHANGED <<kind, closed, arg, yielded, errlog, stdioVars, produced,
                   recvq, clog, others>>

SSEReceive(t) ==
    /\ kind = "sse"
    /\ Invoke(t, "receive")
    /\ QueueLoop(t, "sse_get")
    /\ yielded' = [yielded EXCEPT ![t] = <<>>]
    /\ UNCHANGED telVars
    /\ UNCHANGED <<kind, closed, arg, errlog, stdioVars, produced, queueVars,
                   clog, others>>

\* queue.get() returns a message, which is yielded
SSEGot(t) ==
    /\ kind = "sse"
    /\ pc[t] = "sse_get"
    /\ recvq # <<>>
    /\ recvq' = Tail(recvq)
    /\ yielded' = [yielded EXCEPT ![t] = Append(@, Head(recvq))]
    /\ Goto(t, "sse_yield")
    /\ UNCHANGED telVars
    /\ UNCHANGED <<kind, closed, op, calls, arg, errlog, stdioVars, produced,
                   sendq, clog, others>>

\* the 30 s pass with nothing in the queue: TimeoutError, continue
SSETimeout(t) ==
    /\ kind = "sse"
    /\ pc[t] = "sse_get"
    /\ recvq = <<>>
    /\ QueueLoop(t, "sse_get")
    /\ UNCHANGED telVars
    /\ UNCHANGED <<kind, closed, op, calls, arg, yielded, errlog, stdioVars,
                   produced, queueVars, clog, others>>

\* the consumer asks for the next message
SSEResume(t) ==
    /\ kind = "sse"
    /\ pc[t] = "sse_yield"
    /\ QueueLoop(t, "sse_get")
    /\ UNCHANGED telVars
    /\ UNCHANGED <<kind, closed, op, calls, arg, yielded, errlog, stdioVars,
                   produced, queueVars, clog, others>>

\* _session is never set by this class, so close() only sets the flag
SSEClose(t) ==
    /\ kind = "sse"
    /\ Invoke(t, "close")
    /\ closed' = TRUE
    /\ Return(t)
    /\ clog' = [clog EXCEPT ![t] = <<Ev("begin", closes)>>]
    /\ UNCHANGED telVars
    /\ UNCHANGED <<kind, arg, yielded, errlog, stdioVars, produced, queueVars,
                   others>>

\* the external feeder puts a message on the inbound queue
SSEFeed ==
    /\ kind = "sse"
    /\ produced < MaxIn
    /\ produced' = produced + 1
    /\ recvq' = Append(recvq, InMsg(produced))
    /\ UNCHANGED telVars
    /\ UNCHANGED <<kind, closed, taskVars, errlog, stdioVars, sendq, clog,
                   others>>

NextSSE ==
    \/ \E t \in Tasks, m \in {InMsg(calls)} : SSESend(t, m)
    \/ \E t \in Tasks : SSEReceive(t)
    \/ \E t \in Tasks : SSEGot(t)
    \/ \E t \in Tasks : SSETimeout(t)
    \/ \E t \in Tasks : SSEResume(t)
    \/ \E t \in Tasks : SSEClose(t)
    \/ SSEFeed

(* ---------------------------- HTTPTransport --------------------------- *)
\* lines of an event-stream body
DataLine(m) == <<"data: ">> \o JsonDumps(m) \o <<"\n">>
BadDataLine == <<"data: ", "not", " ", "json", "\n">>
EventLine == <<"event: ", "message", "\n">>
EmptyLine == <<"\n">>
\* a line holding a byte that is not UTF-8
UndecodableLine == <<"0xFF", "\n">>

\* the bodies a server may answer a 200 with
Bodies ==
    { <<>>,
      <<DataLine([id |-> "1"])>>,
      <<DataLine([id |-> "1"]), DataLine([id |-> "2"])>>,
      <<EventLine, DataLine([id |-> "2"]), EmptyLine>>,
      <<BadDataLine, DataLine([id |-> "1"])>>,
      <<EmptyLine, EventLine>>,
      <<UndecodableLine, DataLine([id |-> "1"])>>,
      <<EventLine, DataLine([id |-> "2"]), DataLine([id |-> "1"])>> }

\* the text of a response that is not a 200
ErrorTexts == { <<>>, <<"Internal", " ", "Server", " ", "Error">> }

Statuses == {200, 201, 202, 204, 500}

\* what a server may answer: a status and the content that goes with it
Responses ==
    {[status |-> 200, text |-> b] : b \in Bodies}
        \cup {[status |-> 202, text |-> b] :
                 b \in {<<>>, <<DataLine([id |-> "1"])>>}}
        \cup {[status |-> st, text |-> x] :
                 st \in Statuses \ {200, 202}, x \in ErrorTexts}

\* line.decode('utf-8') succeeds
Decodable(line) == \A i \in 1..Len(line) : line[i] # "0xFF"

\* line_str.startswith('data: ')
StartsWithData(s) == s # <<>> /\ s[1] = "data: "

\* line_str[6:]
AfterPrefix(s) == Tail(s)

\* send() without the test of _closed
HTTPSendUnchecked(t, m) ==
    /\ kind = "http"
    /\ Invoke(t, "send")
    /\ session' = IF session = "none" THEN "open" ELSE session
    /\ sessions' = IF session = "none" THEN sessions + 1 ELSE sessions
    /\ posts' = posts + 1
    /\ arg' = [arg EXCEPT ![t] = m]
    /\ resp' = [resp EXCEPT ![t] = NoResp]
    /\ raised' = [raised EXCEPT ![t] = NoResp]
    /\ Goto(t, "http_post")
    /\ UNCHANGED telVars
    /\ UNCHANGED <<kind, closed, yielded, errlog, stdioVars, produced,
                   queueVars, clog, procVars, body>>

\* send() that makes a ClientSession of its own at every call
HTTPSendNewSession(t, m) ==
    /\ kind = "http"
    /\ Invoke(t, "send")
    /\ resp' = [resp EXCEPT ![t] = NoResp]
    /\ raised' = [raised EXCEPT ![t] = NoResp]
    /\ IF closed
       THEN /\ Finish(t, "TransportClosed")
            /\ UNCHANGED <<arg, session, sessions, posts>>
       ELSE /\ session' = "open"
            /\ sessions' = sessions + 1
            /\ posts' = posts + 1
            /\ arg' = [arg EXCEPT ![t] = m]
            /\ Goto(t, "http_post")
    /\ UNCHANGED telVars
    /\ UNCHANGED <<kind, closed, yielded, errlog, stdioVars, produced,
                   queueVars, clog, procVars, body>>

HTTPSend(t, m) ==
    /\ kind = "http"
    /\ Invoke(t, "send")
    /\ resp' = [resp EXCEPT ![t] = NoResp]
    /\ raised' = [raised EXCEPT ![t] = NoResp]
    /\ IF closed
       THEN /\ Finish(t, "TransportClosed")
            /\ UNCHANGED <<arg, session, sessions, posts>>
       ELSE \* _ensure_session(), then session.post(...) is awaited
            /\ session' = IF session = "none" THEN "open" ELSE session
            /\ sessions' = IF session = "none" THEN sessions + 1 ELSE sessions
            /\ posts' = posts + 1
            /\ arg' = [arg EXCEPT ![t] = m]
            /\ Goto(t, "http_post")
    /\ UNCHANGED telVars
    /\ UNCHANGED <<kind, closed, yielded, errlog, stdioVars, produced,
                   queueVars, clog, procVars, body>>

\* the POST, or the reading of the response, fails with an
\* aiohttp.ClientError: wrapped in RuntimeError("Failed to send message")
HTTPClientError(t) ==
    /\ kind = "http"
    /\ pc[t] \in {"http_post", "http_text", "http_lines"}
    /\ Finish(t, "SendFailed")
    /\ arg' = [arg EXCEPT ![t] = NoMsg]
    /\ body' = [body EXCEPT ![t] = <<>>]
    /\ UNCHANGED telVars
    /\ UNCHANGED <<kind, closed, op, calls, yielded, errlog, stdioVars,
                   produced, queueVars, clog, procVars, session, sessions,
                   posts, resp, raised>>

\* send() that takes every 2xx but 202 for a 200
HTTPResponseAny2xx(t, r) ==
    /\ kind = "http"
    /\ pc[t] = "http_post"
    /\ arg' = [arg EXCEPT ![t] = NoMsg]
    /\ resp' = [resp EXCEPT ![t] = r]
    /\ IF r.status < 200 \/ r.status > 299
       THEN /\ Goto(t, "http_text")
            /\ UNCHANGED body
       ELSE IF r.status = 202
       THEN /\ Finish(t, "ok")
            /\ UNCHANGED body
       ELSE /\ Goto(t, "http_lines")
            /\ body' = [body EXCEPT ![t] = <<>>]
    /\ UNCHANGED telVars
    /\ UNCHANGED <<kind, closed, op, calls, yielded, errlog, stdioVars,
                   produced, queueVars, clog, procVars, session, sessions,
                   posts, raised>>

\* send() that reads the body of a 202 as it does that of a 200
HTTPResponseReadsAll(t, r) ==
    /\ kind = "http"
    /\ pc[t] = "http_post"
    /\ arg' = [arg EXCEPT ![t] = NoMsg]
    /\ resp' = [resp EXCEPT ![t] = r]
    /\ IF r.status \notin {200, 202}
       THEN /\ Goto(t, "http_text")
            /\ UNCHANGED body
       ELSE /\ Goto(t, "http_lines")
            /\ body' = [body EXCEPT ![t] = r.text]
    /\ UNCHANGED telVars
    /\ UNCHANGED <<kind, closed, op, calls, yielded, errlog, stdioVars,
                   produced, queueVars, clog, procVars, session, sessions,
                   posts, raised>>

\* the response r arrives: its status is tested
HTTPResponse(t, r) ==
    /\ kind = "http"
    /\ pc[t] = "http_post"
    /\ arg' = [arg EXCEPT ![t] = NoMsg]
    /\ resp' = [resp EXCEPT ![t] = r]
    /\ IF r.status \notin {200, 202}
       THEN \* response.text() is awaited
            /\ Goto(t, "http_text")
            /\ UNCHANGED body
       ELSE IF r.status = 202
       THEN /\ Finish(t, "ok")
            /\ UNCHANGED body
       ELSE /\ Goto(t, "http_lines")
            /\ body' = [body EXCEPT ![t] = r.text]
    /\ UNCHANGED telVars
    /\ UNCHANGED <<kind, closed, op, calls, yielded, errlog, stdioVars,
                   produced, queueVars, clog, procVars, session, sessions,
                   posts, raised>>

\* an HTTP error that also closes the transport and drops the session
HTTPTextCloses(t) ==
    /\ kind = "http"
    /\ pc[t] = "http_text"
    /\ raised' = [raised EXCEPT ![t] = resp[t]]
    /\ Finish(t, "HTTPError")
    /\ closed' = TRUE
    /\ session' = "closed"
    /\ UNCHANGED telVars
    /\ UNCHANGED <<kind, op, calls, arg, yielded, errlog, stdioVars,
                   produced, queueVars, clog, procVars, sessions,
                   posts, body, resp>>

\* response.text() returns: RuntimeError("HTTP error <status>: <text>")
HTTPText(t) ==
    /\ kind = "http"
    /\ pc[t] = "http_text"
    /\ raised' = [raised EXCEPT ![t] = resp[t]]
    /\ Finish(t, "HTTPError")
    /\ UNCHANGED telVars
    /\ UNCHANGED <<kind, closed, op, calls, arg, yielded, errlog, stdioVars,
                   produced, queueVars, clog, procVars, session, sessions,
                   posts, body, resp>>

\* the read loop without the `break' that follows the put()
HTTPLineNoBreak(t) ==
    /\ kind = "http"
    /\ pc[t] = "http_lines"
    /\ IF body[t] = <<>> \/ closed
       THEN /\ Finish(t, "ok")
            /\ body' = [body EXCEPT ![t] = <<>>]
            /\ UNCHANGED <<recvq, errlog>>
       ELSE IF ~Decodable(Head(body[t]))
       THEN /\ Finish(t, "UnicodeDecodeError")
            /\ body' = [body EXCEPT ![t] = <<>>]
            /\ UNCHANGED <<recvq, errlog>>
       ELSE LET line_str == Strip(Head(body[t]))
                data_str == AfterPrefix(line_str)
            IN /\ Goto(t, "http_lines")
               /\ body' = [body EXCEPT ![t] = Tail(@)]
               /\ IF StartsWithData(line_str) /\ data_str # <<>>
                  THEN IF JsonLoads(data_str) # ParseError
                       THEN /\ recvq' = Append(recvq, JsonLoads(data_str))
                            /\ UNCHANGED errlog
                       ELSE /\ errlog' = errlog + 1
                            /\ UNCHANGED recvq
                  ELSE UNCHANGED <<recvq, errlog>>
    /\ UNCHANGED telVars
    /\ UNCHANGED <<kind, closed, op, calls, arg, yielded, stdioVars, produced,
                   sendq, clog, procVars, session, sessions, posts, resp,
                   raised>>

\* the read loop leaving at a line it takes no message from
HTTPLineStopsAtSkip(t) ==
    /\ kind = "http"
    /\ pc[t] = "http_lines"
    /\ IF body[t] # <<>> /\ ~closed /\ Decodable(Head(body[t]))
          /\ StartsWithData(Strip(Head(body[t])))
          /\ JsonLoads(AfterPrefix(Strip(Head(body[t])))) # ParseError
       THEN /\ recvq' = Append(recvq,
                                JsonLoads(AfterPrefix(Strip(Head(body[t])))))
            /\ Finish(t, "ok")
            /\ body' = [body EXCEPT ![t] = <<>>]
       ELSE /\ Finish(t, "ok")
            /\ body' = [body EXCEPT ![t] = <<>>]
            /\ UNCHANGED recvq
    /\ UNCHANGED telVars
    /\ UNCHANGED <<kind, closed, op, calls, arg, yielded, errlog, stdioVars,
                   produced, sendq, clog, procVars, session, sessions, posts,
                   resp, raised>>

\* `async for line in response.content': the next line, or the end
HTTPLine(t) ==
    /\ kind = "http"
    /\ pc[t] = "http_lines"
    /\ IF body[t] = <<>> \/ closed
       THEN /\ Finish(t, "ok")
            /\ body' = [body EXCEPT ![t] = <<>>]
            /\ UNCHANGED <<recvq, errlog>>
       ELSE IF ~Decodable(Head(body[t]))
       THEN \* line.decode('utf-8') raises, and nothing catches it
            /\ Finish(t, "UnicodeDecodeError")
            /\ body' = [body EXCEPT ![t] = <<>>]
            /\ UNCHANGED <<recvq, errlog>>
       ELSE LET line_str == Strip(Head(body[t]))
                data_str == AfterPrefix(line_str)
            IN IF StartsWithData(line_str) /\ data_str # <<>>
               THEN IF JsonLoads(data_str) # ParseError
                    THEN /\ recvq' = Append(recvq, JsonLoads(data_str))
                         /\ Finish(t, "ok")
                         /\ body' = [body EXCEPT ![t] = <<>>]
                         /\ UNCHANGED errlog
                    ELSE /\ errlog' = errlog + 1
                         /\ Goto(t, "http_lines")
                         /\ body' = [body EXCEPT ![t] = Tail(@)]
                         /\ UNCHANGED recvq
               ELSE /\ Goto(t, "http_lines")
                    /\ body' = [body EXCEPT ![t] = Tail(@)]
                    /\ UNCHANGED <<recvq, errlog>>
    /\ UNCHANGED telVars
    /\ UNCHANGED <<kind, closed, op, calls, arg, yielded, stdioVars, produced,
                   sendq, clog, procVars, session, sessions, posts, resp,
                   raised>>

HTTPReceive(t) ==
    /\ kind = "http"
    /\ Invoke(t, "receive")
    /\ QueueLoop(t, "http_get")
    /\ yielded' = [yielded EXCEPT ![t] = <<>>]
    /\ UNCHANGED telVars
    /\ UNCHANGED <<kind, closed, arg, errlog, stdioVars, produced, queueVars,
                   clog, others>>

\* a get() that takes the newest message of the queue
HTTPGotLast(t) ==
    /\ kind = "http"
    /\ pc[t] = "http_get"
    /\ recvq # <<>>
    /\ recvq' = SubSeq(recvq, 1, Len(recvq) - 1)
    /\ yielded' = [yielded EXCEPT ![t] = Append(@, recvq[Len(recvq)])]
    /\ Goto(t, "http_yield")
    /\ UNCHANGED telVars
    /\ UNCHANGED <<kind, closed, op, calls, arg, errlog, stdioVars, produced,
                   sendq, clog, others>>

\* queue.get() returns a message, which is yielded
HTTPGot(t) ==
    /\ kind = "http"
    /\ pc[t] = "http_get"
    /\ recvq # <<>>
    /\ recvq' = Tail(recvq)
    /\ yielded' = [yielded EXCEPT ![t] = Append(@, Head(recvq))]
    /\ Goto(t, "http_yield")
    /\ UNCHANGED telVars
    /\ UNCHANGED <<kind, closed, op, calls, arg, errlog, stdioVars, produced,
                   sendq, clog, others>>

\* a poll that ends the loop when it times out
HTTPTimeoutBreaks(t) ==
    /\ kind = "http"
    /\ pc[t] = "http_get"
    /\ recvq = <<>>
    /\ Finish(t, "ok")
    /\ UNCHANGED telVars
    /\ UNCHANGED <<kind, closed, op, calls, arg, yielded, errlog, stdioVars,
                   produced, queueVars, clog, others>>

\* 1 s passes with nothing in the queue: TimeoutError, continue
HTTPTimeout(t) ==
    /\ kind = "http"
    /\ pc[t] = "http_get"
    /\ recvq = <<>>
    /\ QueueLoop(t, "http_get")
    /\ UNCHANGED telVars
    /\ UNCHANGED <<kind, closed, op, calls, arg, yielded, errlog, stdioVars,
                   produced, queueVars, clog, others>>

HTTPResume(t) ==
    /\ kind = "http"
    /\ pc[t] = "http_yield"
    /\ QueueLoop(t, "http_get")
    /\ UNCHANGED telVars
    /\ UNCHANGED <<kind, closed, op, calls, arg, yielded, errlog, stdioVars,
                   produced, queueVars, clog, others>>

HTTPClose(t) ==
    /\ kind = "http"
    /\ Invoke(t, "close")
    /\ closed' = TRUE
    /\ IF session = "none"
       THEN /\ Return(t)
            /\ UNCHANGED session
       ELSE \* session.close() is awaited
            /\ session' = "closed"
            /\ Goto(t, "http_closing")
    /\ clog' = [clog EXCEPT ![t] = <<Ev("begin", closes)>>]
    /\ UNCHANGED telVars
    /\ UNCHANGED <<kind, arg, yielded, errlog, stdioVars, produced, queueVars,
                   procVars, sessions, posts, body, resp, raised>>

HTTPClosed(t) ==
    /\ kind = "http"
    /\ pc[t] = "http_closing"
    /\ Return(t)
    /\ UNCHANGED telVars
    /\ UNCHANGED <<kind, closed, op, calls, arg, yielded, errlog, stdioVars,
                   produced, queueVars, clog, others>>

NextHTTP ==
    \/ \E t \in Tasks, m \in {InMsg(calls)} : HTTPSend(t, m)
    \/ \E t \in Tasks : HTTPClientError(t)
    \/ \E t \in Tasks, r \in Responses : HTTPResponse(t, r)
    \/ \E t \in Tasks : HTTPText(t)
    \/ \E t \in Tasks : HTTPLine(t)
    \/ \E t \in Tasks : HTTPReceive(t)
    \/ \E t \in Tasks : HTTPGot(t)
    \/ \E t \in Tasks : HTTPTimeout(t)
    \/ \E t \in Tasks : HTTPResume(t)
    \/ \E t \in Tasks : HTTPClose(t)
    \/ \E t \in Tasks : HTTPClosed(t)

(* ============================= telemetry ============================== *)
\* what the profile holds: its calls and the file reads it has counted
RECURSIVE Reads(_, _)
Reads(fr, ps) ==
    IF ps = {} THEN 0
    ELSE LET p == CHOOSE q \in ps : TRUE IN fr[p] + Reads(fr, ps \ {p})
Recorded(pr) == Len(pr.calls) + Reads(pr.files_read, Paths)

\* CostTracker.enable()
Enable ==
    /\ enabled' = TRUE
    /\ IF profile = NoProfile
       THEN /\ profile' = CostProfile(profiles + 1)
            /\ profiles' = profiles + 1
       ELSE UNCHANGED <<profile, profiles>>
    /\ last' = "enable"
    /\ UNCHANGED <<current_operation, current_agent, frames, transportVars>>

\* CostTracker.disable()
Disable ==
    /\ enabled' = FALSE
    /\ last' = "disable"
    /\ UNCHANGED <<profile, profiles, current_operation, current_agent,
                   frames, transportVars>>

\* CostTracker.reset()
Reset ==
    /\ profiles < MaxProfiles
    /\ profile' = CostProfile(profiles + 1)
    /\ profiles' = profiles + 1
    /\ last' = "reset"
    /\ UNCHANGED <<enabled, current_operation, current_agent, frames,
                   transportVars>>

\* the TrackedCall that track_call() builds: the operation, the agent and
\* the tool current in the context (no track_tool block is ever opened, so
\* the tool is None); the token counts and the cost are stored as passed
TrackedCall ==
    [operation_type |-> current_operation, agent_name |-> current_agent,
     tool_name |-> "None"]

\* track_call() without its test of _enabled
TrackCallUngated ==
    /\ IF profile = NoProfile
       THEN UNCHANGED profile
       ELSE /\ Recorded(profile) < MaxTracked
            /\ profile' = [profile EXCEPT !.calls = Append(@, TrackedCall)]
    /\ last' = "track_call"
    /\ UNCHANGED <<enabled, profiles, current_operation, current_agent,
                   frames, transportVars>>

\* CostTracker.track_call(...)
TrackCall ==
    /\ IF ~enabled \/ profile = NoProfile
       THEN UNCHANGED profile
       ELSE /\ Recorded(profile) < MaxTracked
            /\ profile' = [profile EXCEPT !.calls = Append(@, TrackedCall)]
    /\ last' = "track_call"
    /\ UNCHANGED <<enabled, profiles, current_operation, current_agent,
                   frames, transportVars>>

\* CostTracker.track_file_read(path)
TrackFileRead(path) ==
    /\ IF ~enabled \/ profile = NoProfile
       THEN UNCHANGED profile
       ELSE /\ Recorded(profile) < MaxTracked
            /\ profile' = [profile EXCEPT !.files_read[path] = @ + 1]
    /\ last' = "track_file_read"
    /\ UNCHANGED <<enabled, profiles, current_operation, current_agent,
                   frames, transportVars>>

\* the context variables, by name
Context == [operation |-> current_operation, agent |-> current_agent]

\* entering `with track_operation(value)' / `with track_agent(value)':
\* ContextVar.set(value), whose token holds the value current before
Enter(v, value) ==
    /\ Len(frames) < MaxDepth
    /\ frames' = Append(frames, [var |-> v, value |-> value,
                                 old_value |-> Context[v]])
    /\ current_operation' = IF v = "operation" THEN value
                            ELSE current_operation
    /\ current_agent' = IF v = "agent" THEN value ELSE current_agent
    /\ last' = "enter"
    /\ UNCHANGED <<enabled, profile, profiles, transportVars>>
TrackOperation(operation) == Enter("operation", operation)
TrackAgent(agent_name) == Enter("agent", agent_name)

\* ContextVar.reset(token) putting the variable's default back instead
ResetToDefault(ctx, f) == [ctx EXCEPT ![f.var] = Default(f.var)]

\* ContextVar.reset(token) in the finally clause of block f
ResetToken(ctx, f) == [ctx EXCEPT ![f.var] = f.old_value]

\* the context after the finally clauses of the n innermost blocks of fs
\* have run, innermost first
RECURSIVE Unwind(_, _, _)
Unwind(fs, n, ctx) ==
    IF n = 0 THEN ctx
    ELSE Unwind(SubSeq(fs, 1, Len(fs) - 1), n - 1,
                ResetToken(ctx, fs[Len(fs)]))

\* control leaves the n innermost blocks
Leave(n, how) ==
    /\ n \in 1..Len(frames)
    /\ frames' = SubSeq(frames, 1, Len(frames) - n)
    /\ current_operation' = Unwind(frames, n, Context).operation
    /\ current_agent' = Unwind(frames, n, Context).agent
    /\ last' = how
    /\ UNCHANGED <<enabled, profile, profiles, transportVars>>

\* the body of the innermost block ends
BlockExit == Leave(1, "exit")
\* the body of the innermost block raises, and the exception is caught
\* after it has left n blocks
BlockRaise(n) == Leave(n, "raise")

NextTelemetry ==
    \/ Enable
    \/ Disable
    \/ Reset
    \/ TrackCall
    \/ \E path \in Paths : TrackFileRead(path)
    \/ \E operation \in Operations : TrackOperation(operation)
    \/ \E agent_name \in Agents : TrackAgent(agent_name)
    \/ BlockExit
    \/ \E n \in 1..MaxDepth : BlockRaise(n)

InitStdio == Init /\ kind = "stdio"
InitSSE == Init /\ kind = "sse"
InitProc == Init /\ kind = "process"
InitHTTP == Init /\ kind = "http"

Next ==
    \/ NextStdio
    \/ NextSSE
    \/ NextProc
    \/ NextHTTP

Spec == Init /\ [][Next]_vars
SpecStdio == InitStdio /\ [][NextStdio]_vars
SpecSSE == InitSSE /\ [][NextSSE]_vars
SpecProc == InitProc /\ [][NextProc]_vars
SpecHTTP == InitHTTP /\ [][NextHTTP]_vars
\* the tracker on its own, beside a transport on which no call is made
InitTelemetry == InitStdio
SpecTelemetry == InitTelemetry /\ [][NextTelemetry]_vars

(* The event loop runs every callback that is ready and every timer that   *)
(* is due, so a close() that can go on does go on; and a killed process    *)
(* exits.  Nothing makes a child read its stdin, write, or exit unasked.   *)
KilledExit(c) == ChildExit(c) /\ child[c].kills > 0
CloseFairness ==
    /\ \A t \in Tasks : WF_vars(ProcWaitClosed(t))
    /\ \A t \in Tasks : WF_vars(ProcWaitDone(t))
    /\ \A t \in Tasks : WF_vars(ProcTimeout1(t))
    /\ \A t \in Tasks : WF_vars(ProcTimeout2(t))
    /\ \A c \in 1..2 : WF_vars(KilledExit(c))
FairProc == SpecProc /\ CloseFairness

(* ============================ properties ============================== *)
\* a step in which task t calls send(m) / receive(), on whichever transport
SendStep(t, m) ==
    StdioSend(t, m) \/ SSESend(t, m) \/ ProcSend(t, m) \/ HTTPSend(t, m)
ReceiveStep(t) ==
    StdioReceive(t) \/ SSEReceive(t) \/ ProcReceive(t) \/ HTTPReceive(t)

\* C1: on every transport a send() called when the transport is closed
\* raises the transport-closed error and does nothing else: stdout, the
\* children and their stdin, the queues, the session and the POST count
\* are as before, and the call has ended.
C1_SendAfterCloseFails ==
    [][\A t \in Tasks, m \in Msgs :
          (closed /\ SendStep(t, m)) =>
              /\ ret'[t] = "TransportClosed"
              /\ pc'[t] = "idle"
              /\ UNCHANGED <<stdout, sendq, recvq, process, child, session,
                             sessions, posts>>]_vars

\* a send() was refused on a closed transport
C1_Witness ==
    \E t \in Tasks :
        closed /\ op[t] = "send" /\ pc[t] = "idle" /\ ret[t] = "TransportClosed"

\* C2: on every transport a receive() called after a close() has returned
\* ends at once with the transport-closed error.
C2_ReceiveAfterCloseFails ==
    [][\A t \in Tasks :
          (closed /\ closes >= 1 /\ ReceiveStep(t)) =>
              (ret'[t] = "TransportClosed" /\ pc'[t] = "idle")]_vars

\* C9: the closed flag, once set, stays set, whatever is called afterwards.
C9_ClosedIsTerminal == [][closed => closed']_vars

\* close() has returned twice and the transport is closed
C9_Witness == closed /\ closes >= 2

\* what a close() call has done to children, without its "begin" entry
\* and without the entry for the exit that ended its wait
IsStage(x) == x.e \notin {"begin", "exited"}
StageLog(t) == SelectSeq(clog[t], IsStage)
IsPrefix(a, b) == Len(a) <= Len(b) /\ a = SubSeq(b, 1, Len(a))
Has(log, e) == \E i \in 1..Len(log) : log[i].e = e

\* the escalation on child c, in order
Stages(c) ==
    <<Ev("stdin_close", c), Ev("timeout5", c), Ev("terminate", c),
      Ev("timeout2", c), Ev("kill", c)>>

\* C3: each close() of ProcessTransport goes through the escalation in
\* order and on one child: its stdin is closed first, it is sent the
\* termination signal only after the 5 s wait on it has expired with it
\* still running, and the kill only after the signal and the 2 s wait;
\* a close() whose first wait expired has sent exactly one termination
\* signal, and at most one kill, when it ends.
C3_EscalationOrder ==
    \A t \in Tasks :
        StageLog(t) # <<>> =>
            /\ IsPrefix(StageLog(t), Stages(StageLog(t)[1].c))
            /\ (pc[t] = "idle" /\ Has(StageLog(t), "timeout5"))
                   => Has(StageLog(t), "terminate")

\* the same, for a transport that has spawned one child only
C3_OrderWithOneChild == Len(child) <= 1 => C3_EscalationOrder

\* C4: a close() whose first wait ended because the child had exited has
\* returned, without error, and has sent neither signal.
C4_NoSignalOnCleanExit ==
    \A t \in Tasks :
        (Len(clog[t]) >= 3 /\ clog[t][3].e = "exited") =>
            /\ pc[t] = "idle"
            /\ op[t] = "close" => ret[t] = "ok"
            /\ ~Has(clog[t], "terminate")
            /\ ~Has(clog[t], "kill")

\* a close() closed the child's stdin, the child exited within the first
\* wait, and it was never signalled
C4_Witness ==
    \E t \in Tasks :
        /\ op[t] = "close" /\ pc[t] = "idle"
        /\ Len(clog[t]) = 3 /\ clog[t][3].e = "exited"
        /\ child[clog[t][3].c].terms = 0

\* C5: every close() of ProcessTransport that has started ends, whatever
\* the child does, given only that a killed child exits.
C5_CloseReturns ==
    \A t \in Tasks : (op[t] = "close" /\ pc[t] # "idle") ~> (pc[t] = "idle")

\* C6: a ProcessTransport spawns at most one child in its lifetime.
C6_AtMostOneSpawn == Len(child) <= 1

\* C7: once a close() of ProcessTransport has returned, _process is not a
\* running child.
C7_NoChildAfterClose == closes >= 1 => (process = 0 \/ ~Running(process))

\* C8: a close() begun after a close() has returned raises nothing, leaves
\* the transport closed and sends no termination or kill signal.
C8_SecondCloseIsNoOp ==
    \A t \in Tasks :
        (clog[t] # <<>> /\ clog[t][1].c >= 1) =>
            /\ closed
            /\ (op[t] = "close" /\ pc[t] = "idle") => ret[t] = "ok"
            /\ ~Has(clog[t], "terminate")
            /\ ~Has(clog[t], "kill")

\* a step of task t inside receive() on a stream transport
StreamReceiveStep(t) ==
    \/ StdioReceive(t) \/ StdioSetupDone(t) \/ StdioResume(t) \/ StdioRead(t)
    \/ ProcReceive(t) \/ ProcSpawned(t) \/ ProcResume(t) \/ ProcRead(t)

\* the step took lines off an inbound stream, the last of them not JSON
TookBadLine ==
    \/ /\ Len(inbuf') < Len(inbuf)
       /\ inbuf[Len(inbuf) - Len(inbuf')] = BadLine
    \/ \E c \in DOMAIN child :
          /\ Len(child'[c].out) < Len(child[c].out)
          /\ child[c].out[Len(child[c].out) - Len(child'[c].out)] = BadLine

\* the stream the loop reads next has ended
StreamEnded ==
    \/ kind = "stdio" /\ inbuf' = <<>> /\ ineof
    \/ kind = "process" /\ child'[process'].out = <<>> /\ ~Running(process)

\* C10: when receive() on a stream transport reads a line that is not
\* valid JSON, it reports it on stderr and goes on: the call does not end
\* there (unless the transport is closed or the stream has ended).
C10_BadLineSkipped ==
    [][\A t \in Tasks :
          (StreamReceiveStep(t) /\ TookBadLine) =>
              /\ errlog' = errlog + 1
              /\ pc'[t] # "idle" \/ closed \/ StreamEnded]_vars

(* The event loop resumes a receive() whose await is over: a timer that is  *)
(* due fires, a read or a get() that has data returns, a spawn completes;   *)
(* and the consumer of the iterator keeps asking for the next message.      *)
(* Nothing makes a peer write, or end its stream.                           *)
ReceiveFairness ==
    \A t \in Tasks :
        /\ WF_vars(StdioSetupDone(t)) /\ WF_vars(StdioRead(t))
        /\ WF_vars(StdioResume(t))
        /\ WF_vars(ProcSpawned(t)) /\ WF_vars(ProcRead(t))
        /\ WF_vars(ProcResume(t))
        /\ WF_vars(SSEGot(t)) /\ WF_vars(SSETimeout(t))
        /\ WF_vars(SSEResume(t))
        /\ WF_vars(HTTPGot(t)) /\ WF_vars(HTTPTimeout(t))
        /\ WF_vars(HTTPResume(t)) /\ WF_vars(HTTPClosed(t))
FairRecv == Spec /\ ReceiveFairness /\ CloseFairness
FairStdio == SpecStdio /\ ReceiveFairness

\* the two queue-mediated transports
SpecQueue == (InitSSE \/ InitHTTP) /\ [][NextSSE \/ NextHTTP]_vars
FairQueue == SpecQueue /\ ReceiveFairness

\* C11: on every transport, a receive() that is in progress while the
\* transport is closed ends, even if the peer delivers nothing more.
C11_ReceiveEndsOnClose ==
    \A t \in Tasks :
        (closed /\ op[t] = "receive" /\ pc[t] # "idle") ~> (pc[t] = "idle")

\* the same for the queue-mediated transports only, whose wait is a poll
C11_PollingReceiveEnds ==
    \A t \in Tasks :
        (closed /\ op[t] = "receive" /\ pc[t] \in {"sse_get", "http_get"})
            ~> (pc[t] = "idle")

\* C12: when the POST of a send() is answered with status 202, the call
\* returns at once without error: nothing is put on the inbound queue and
\* no line of the response body is read.
C12_AcceptedEnqueuesNothing ==
    [][\A t \in Tasks, r \in Responses :
          (r.status = 202 /\ HTTPResponse(t, r)) =>
              /\ pc'[t] = "idle" /\ ret'[t] = "ok"
              /\ recvq' = recvq
              /\ body'[t] = <<>>
              /\ errlog' = errlog]_vars

\* a send() has returned from a 202 that had a data line in its body, and
\* the inbound queue is empty
C12_Witness ==
    \E t \in Tasks :
        /\ op[t] = "send" /\ pc[t] = "idle" /\ ret[t] = "ok"
        /\ resp[t].status = 202 /\ resp[t].text # <<>>
        /\ recvq = <<>>
        /\ \A u \in Tasks : yielded[u] = <<>>

\* a body line that send() takes a message from, and the messages of a body
IsDataLine(l) ==
    /\ Decodable(l)
    /\ StartsWithData(Strip(l))
    /\ JsonLoads(AfterPrefix(Strip(l))) # ParseError
RECURSIVE DataMsgs(_)
DataMsgs(b) ==
    IF b = <<>> THEN <<>>
    ELSE IF IsDataLine(Head(b))
         THEN <<JsonLoads(AfterPrefix(Strip(Head(b))))>> \o DataMsgs(Tail(b))
         ELSE DataMsgs(Tail(b))

\* task t's send() leaves the read loop and returns
SendEndsOk(t) ==
    kind = "http" /\ pc[t] = "http_lines" /\ pc'[t] = "idle" /\ ret'[t] = "ok"

\* C13 (as amended): no step adds more than one message to the inbound
\* queue; a send() that enqueues a message enqueues the first data line of
\* its response and returns in that step, the later lines unread; and a
\* send() that returns from a 200 with two or more data lines, on a
\* transport that is not closed, has enqueued exactly the first.
C13_FirstDataLineOnly ==
    [][\A t \in Tasks :
          /\ Len(recvq') <= Len(recvq) + 1
          /\ (HTTPLine(t) /\ Len(recvq') > Len(recvq)) =>
                 /\ recvq' = Append(recvq, DataMsgs(resp[t].text)[1])
                 /\ pc'[t] = "idle"
                 /\ body'[t] = <<>>
          /\ (SendEndsOk(t) /\ ~closed /\ Len(DataMsgs(resp[t].text)) >= 2) =>
                 /\ recvq' = Append(recvq, DataMsgs(resp[t].text)[1])
                 /\ body'[t] = <<>>]_vars

\* C13 (as stated): every send() that returns from a 200 with two or more
\* data lines has enqueued exactly the first of them.
C13_AsStated ==
    [][\A t \in Tasks :
          (SendEndsOk(t) /\ Len(DataMsgs(resp[t].text)) >= 2) =>
              recvq' = Append(recvq, DataMsgs(resp[t].text)[1])]_vars

\* the only POST so far was answered by a 200 with two data lines or more;
\* its send() has returned and the queue holds the first of them alone
C13_Witness ==
    \E t \in Tasks :
        /\ posts = 1 /\ op[t] = "send" /\ pc[t] = "idle" /\ ret[t] = "ok"
        /\ resp[t].status = 200
        /\ Len(DataMsgs(resp[t].text)) >= 2
        /\ recvq = <<DataMsgs(resp[t].text)[1]>>
        /\ \A u \in Tasks : yielded[u] = <<>>

\* a status outside 200..299
NonSuccess(st) == st < 200 \/ st > 299

\* C14: a response whose status is not a 2xx makes its send() fail with
\* the HTTP error, which carries the status and the text of the response;
\* neither step of that puts anything on the queue, closes the transport
\* or touches the session; and after such a failure a send() on the open
\* transport posts on the same session and a receive() polls, as before.
C14_StatusErrorIsLocal ==
    [][\A t \in Tasks :
          /\ \A r \in Responses :
                (NonSuccess(r.status) /\ HTTPResponse(t, r)) =>
                    /\ pc'[t] = "http_text" /\ resp'[t] = r
                    /\ UNCHANGED <<recvq, closed, session, sessions>>
          /\ (HTTPText(t) /\ NonSuccess(resp[t].status)) =>
                 /\ pc'[t] = "idle" /\ ret'[t] = "HTTPError"
                 /\ raised'[t] = resp[t]
                 /\ UNCHANGED <<recvq, closed, session, sessions>>
          /\ \A m \in Msgs :
                (ret[t] = "HTTPError" /\ ~closed /\ HTTPSend(t, m)) =>
                    /\ pc'[t] = "http_post" /\ posts' = posts + 1
                    /\ session' = "open" /\ sessions' = sessions
          /\ (ret[t] = "HTTPError" /\ ~closed /\ HTTPReceive(t)) =>
                 pc'[t] = "http_get"]_vars

\* a send() failed on a 500 that had a text; later the same task called
\* send() again, and that call is reading the lines of a 200
C14_Witness ==
    \E t \in Tasks :
        /\ ret[t] = "HTTPError" /\ op[t] = "send" /\ pc[t] = "http_lines"
        /\ \E u \in Tasks \ {t} :
              /\ ret[u] = "HTTPError" /\ pc[u] = "idle"
              /\ raised[u].status = 500 /\ raised[u].text # <<>>
        /\ ~closed /\ sessions = 1 /\ recvq = <<>>

\* C15: send() goes on only with a response of status 200 or 202: with any
\* other status, 201 and 204 included, it reads the text of the response
\* and ends with an error, never normally; and it raises the HTTP error
\* for no 200 and no 202.
C15_Only200And202 ==
    \A t \in Tasks :
        (op[t] = "send" /\ resp[t].status # 0) =>
            IF resp[t].status \in {200, 202}
            THEN /\ pc[t] # "http_text"
                 /\ ~(pc[t] = "idle" /\ ret[t] = "HTTPError")
            ELSE \/ pc[t] = "http_text"
                 \/ /\ pc[t] = "idle"
                    /\ ret[t] \in {"HTTPError", "SendFailed"}
                    /\ ret[t] = "HTTPError" => raised[t] = resp[t]

\* a send() answered with 204 has ended with the HTTP error for 204
C15_Witness ==
    \E t \in Tasks :
        /\ op[t] = "send" /\ pc[t] = "idle" /\ ret[t] = "HTTPError"
        /\ resp[t].status = 204 /\ raised[t].status = 204

\* how a send() of HTTPTransport ends when it raises the transport's own
\* error (RuntimeError: closed, HTTP error, failed to send)
TransportErrors == {"TransportClosed", "HTTPError", "SendFailed"}

\* C16: a send() of HTTPTransport that fails, fails with the transport's
\* own error; no other exception reaches the caller.
C16_OnlyTransportErrors ==
    \A t \in Tasks :
        (kind = "http" /\ op[t] = "send" /\ pc[t] = "idle") =>
            ret[t] \in TransportErrors \cup {"ok"}

\* the part of it about the connection: every ClientError raised while the
\* POST is awaited or the response is read ends the call with the wrapper
C16_ClientErrorWrapped ==
    [][\A t \in Tasks :
          HTTPClientError(t) =>
              (pc'[t] = "idle" /\ ret'[t] = "SendFailed")]_vars

\* what the writer to child c's stdin has accepted that the child has not
\* lost: the lines the pipe took, then the lines still buffered
Chan(ch, c) == ch[c].wire \o ch[c].wbuf

\* l is one terminated line: it ends with its only newline
IsOneLine(l) ==
    /\ l # <<>> /\ l[Len(l)] = "\n"
    /\ \A i \in 1..(Len(l) - 1) : l[i] # "\n"

\* after is before with one line more, which is terminated and decodes to m
OneLineMore(before, after, m) ==
    /\ Len(after) = Len(before) + 1
    /\ SubSeq(after, 1, Len(before)) = before
    /\ IsOneLine(after[Len(after)])
    /\ JsonLoads(Strip(after[Len(after)])) = m

\* task t's send() has returned normally, or waits in drain()
Written(t) == (pc'[t] = "idle" /\ ret'[t] = "ok") \/ pc'[t] = "proc_drain"

LineMsgs(lines) == [i \in 1..Len(lines) |-> JsonLoads(Strip(lines[i]))]

\* the messages are in the order of their numbers, none twice: callers'
\* messages are numbered by call, a peer's by the line it wrote them on
Increasing(msgs) ==
    \A i, j \in 1..Len(msgs) : i < j => Ordinal(msgs[i]) < Ordinal(msgs[j])

\* lines are on the outgoing channels in the order of the send() calls:
\* each channel holds them in call order, and no send() is still to write
\* its line when the line of a later call is on a channel
SendOrder ==
    /\ Increasing(LineMsgs(stdout))
    /\ \A c \in DOMAIN child :
          /\ Increasing(LineMsgs(Chan(child, c)))
          /\ \A t \in Tasks :
                (pc[t] = "proc_spawn" /\ op[t] = "send") =>
                    \A i \in 1..Len(Chan(child, c)) :
                        Ordinal(arg[t]) < Ordinal(LineMsgs(Chan(child, c))[i])

\* a receive() yields messages in the order their lines arrived
ReceiveOrder ==
    \A t \in Tasks :
        (kind \in {"stdio", "process"} /\ op[t] = "receive") =>
            Increasing(yielded[t])

\* C18: on the stream and process transports the lines are on the
\* outgoing channel in the order the send() calls were made, and each
\* receive() yields messages in the order their lines arrived, none
\* twice.
C18_OrderPreserved == SendOrder /\ ReceiveOrder

\* create_subprocess_exec calls made so far, completed or not
Spawns == Len(child) + Cardinality({t \in Tasks : pc[t] = "proc_spawn"})

\* the same, for a transport that has started one spawn at most
C18_OrderWithOneSpawn == Spawns <= 1 => C18_OrderPreserved

\* a step in which task t, waiting in get(), is given a message
GetStep(t) == SSEGot(t) \/ HTTPGot(t)

\* C19: the inbound queue changes only by a message put at its tail or
\* by its head being taken and yielded, in that step, by the receive()
\* that took it; a put never suspends its producer: the send() of
\* HTTPTransport that puts a reply ends in that step, and so does the
\* send() of SSETransport, which puts on the outbound queue; hence on
\* SSETransport, whose feeder numbers its messages, what a receive() has
\* yielded and what the queue still holds are in the order of the puts.
C19_QueueOrder ==
    /\ [][/\ recvq' # recvq =>
               \/ \E m \in Msgs : recvq' = Append(recvq, m)
               \/ /\ recvq # <<>> /\ recvq' = Tail(recvq)
                  /\ \E t \in Tasks :
                        /\ GetStep(t)
                        /\ yielded'[t] = Append(yielded[t], Head(recvq))
          /\ \A t \in Tasks :
                /\ GetStep(t) => recvq' = Tail(recvq)
                /\ (HTTPLine(t) /\ recvq' # recvq) => pc'[t] = "idle"
                /\ \A m \in Msgs :
                      (SSESend(t, m) /\ ~closed) =>
                          (pc'[t] = "idle" /\ sendq' = Append(sendq, m))]_vars
    /\ [](\A t \in Tasks :
             (kind = "sse" /\ op[t] = "receive") =>
                 Increasing(yielded[t] \o recvq))

\* two POSTs have been answered, and a receive() of HTTPTransport has
\* yielded the two replies, which differ
C19_Witness ==
    \E t \in Tasks :
        /\ kind = "http" /\ op[t] = "receive" /\ posts = 2
        /\ Len(yielded[t]) = 2 /\ yielded[t][1] # yielded[t][2]

\* task t waits in wait_for(queue.get(), timeout)
Polling(t) == pc[t] \in {"sse_get", "http_get"}

\* C20: on the queue-mediated transports a poll that times out on an open
\* transport leaves the receive() where it was, waiting again, with
\* nothing raised, logged or yielded; and while a receive() waits, the
\* messages on the queue, whenever they were put, are all taken (and by
\* C19 yielded) unless the transport is closed.
C20_TimeoutIsNotAnError ==
    /\ [][\A t \in Tasks :
             ((SSETimeout(t) \/ HTTPTimeout(t)) /\ ~closed) =>
                 /\ Polling(t) /\ pc'[t] = pc[t]
                 /\ UNCHANGED <<ret, yielded, errlog, recvq>>]_vars
    /\ \A t \in Tasks :
          (Polling(t) /\ recvq # <<>>) ~> (closed \/ recvq = <<>>)

\* the first call on an HTTPTransport was a receive(); the only send()
\* came later, and the receive() has yielded its reply
C20_Witness ==
    /\ kind = "http" /\ ~closed
    /\ op["t1"] = "receive" /\ calls = 2 /\ posts = 1
    /\ op["t2"] = "send" /\ pc["t2"] = "idle" /\ ret["t2"] = "ok"
    /\ Len(yielded["t1"]) = 1

\* C21: a ProcessTransport has no child until a call is made on it; a
\* child appears only when the spawn awaited by a send() or a receive()
\* completes; the first send() on an open transport, and the first
\* receive(), start that spawn; and a close() that finds no process
\* returns at once: it spawns nothing and signals nothing.
C21_LazySpawn ==
    /\ [](calls = 0 => (process = 0 /\ child = <<>>))
    /\ [][/\ Len(child') > Len(child) =>
               \E t \in Tasks :
                   ProcSpawned(t) /\ op[t] \in {"send", "receive"}
          /\ \A t \in Tasks :
                /\ \A m \in Msgs :
                      (ProcSend(t, m) /\ ~closed /\ process = 0) =>
                          pc'[t] = "proc_spawn"
                /\ (ProcReceive(t) /\ process = 0) => pc'[t] = "proc_spawn"
                /\ (ProcClose(t) /\ process = 0) =>
                       /\ pc'[t] = "idle" /\ ret'[t] = "ok"
                       /\ child' = child /\ process' = 0
                       /\ StageLog(t)' = <<>>]_vars

\* the only call made on a ProcessTransport was a close(), which has
\* returned: there is no child
C21_Witness ==
    /\ kind = "process" /\ calls = 1 /\ closes = 1 /\ closed
    /\ process = 0 /\ child = <<>>

(* -------------------------- the cost tracker -------------------------- *)
\* C22: track_call() appends exactly one call, the one it built, to the
\* current profile when tracking is enabled (the tracker then has a
\* profile) and leaves the profile as it is when tracking is disabled;
\* track_file_read(path) counts one more read of the path when enabled and
\* leaves the profile as it is when disabled.
C22_TrackingIsGated ==
    [][/\ TrackCall =>
             IF enabled
             THEN /\ profile # NoProfile
                  /\ profile'.calls = Append(profile.calls, TrackedCall)
                  /\ profile'.files_read = profile.files_read
                  /\ profile'.session_id = profile.session_id
             ELSE profile' = profile
       /\ \A path \in Paths :
             TrackFileRead(path) =>
                 IF enabled
                 THEN /\ profile # NoProfile
                      /\ profile'.files_read =
                            [profile.files_read EXCEPT ![path] = @ + 1]
                      /\ profile'.calls = profile.calls
                 ELSE profile' = profile]_vars

\* a profile that got a call while tracking was enabled, and kept just that
\* call when track_call() was called again with tracking disabled
C22_Witness ==
    /\ last = "track_call" /\ ~enabled
    /\ profile # NoProfile /\ Len(profile.calls) = 1

\* C23: right after reset() the tracker is not enabled, whatever calls of
\* enable() and disable() came before; enable() makes enabled true and
\* disable() makes it false.
C23_ResetDisables ==
    [][/\ Reset => ~enabled'
       /\ Enable => enabled'
       /\ Disable => ~enabled']_vars

\* the innermost open block that sets the context variable v has set it
\* to this value; the default when no such block is open
RECURSIVE Innermost(_, _)
Innermost(fs, v) ==
    IF fs = <<>> THEN Default(v)
    ELSE IF fs[Len(fs)].var = v THEN fs[Len(fs)].value
    ELSE Innermost(SubSeq(fs, 1, Len(fs) - 1), v)

\* C24: the current operation and the current agent are always those of
\* the innermost open track_operation / track_agent block, and the
\* defaults when no such block is open: a block sets its value while it is
\* open, and leaving it, at its end or by an exception, nested or not,
\* puts back the value that was current when it was entered.
C24_BlocksRestore ==
    /\ current_operation = Innermost(frames, "operation")
    /\ current_agent = Innermost(frames, "agent")

\* an exception has left an inner block, and the operation of the block
\* around it, which is still open, is current again
C24_Witness ==
    /\ last = "raise" /\ Len(frames) = 1
    /\ frames[1].var = "operation" /\ frames[1].value = "planning"
    /\ current_operation = "planning"

(* ------------------------ lines without a payload --------------------- *)
\* a body line that decodes and that send() takes no message from: an
\* `event:' line, a blank line, a `data:' line whose rest is not JSON
NoPayload(l) == Decodable(l) /\ ~IsDataLine(l)
\* the lines of body b before its first data line
RECURSIVE BeforeData(_)
BeforeData(b) ==
    IF b = <<>> \/ IsDataLine(Head(b)) THEN <<>>
    ELSE <<Head(b)>> \o BeforeData(Tail(b))
\* body b has a data line, after one or more lines without a payload
DataAfterSkipped(b) ==
    /\ BeforeData(b) # <<>>
    /\ Len(BeforeData(b)) < Len(b)
    /\ \A i \in 1..Len(BeforeData(b)) : NoPayload(b[i])

Blank(l) == Strip(l) = <<>>
AllBlank(b) == \A i \in 1..Len(b) : Blank(b[i])
\* the inbound streams: 0 is stdin, c >= 1 the stdout of child c; what a
\* stream holds, and the lines a step takes off it
Streams == {0} \cup DOMAIN child
Holds(c) == IF c = 0 THEN inbuf ELSE child[c].out
Taken(c) == SubSeq(Holds(c), 1, Len(Holds(c)) - Len(Holds(c)'))
\* the step took lines, and blank ones only
TookOnlyBlank ==
    /\ \E c \in Streams : Taken(c) # <<>>
    /\ \A c \in Streams : AllBlank(Taken(c))
\* task t is, after the step, at a yield
AtYield(t) == pc'[t] \in {"stdio_yield", "proc_yield"}
\* another task is suspended in readline()
OtherReading(t) ==
    \E u \in Tasks \ {t} : pc[u] \in {"stdio_read", "proc_read"}
\* the stream that the step of task t reads last: the one of the pending
\* readline(), unless that returns a blank line and the loop goes on
EndsOn(t) ==
    IF kind = "stdio" THEN 0
    ELSE IF pc[t] = "proc_read"
            /\ (child[cur[t]].out = <<>> \/ ~Blank(Head(child[cur[t]].out)))
         THEN cur[t]
         ELSE process
\* readline() in the step of task t comes to the end of the stream: the
\* stream has ended and holds blank lines at most
EmptyRead(t) ==
    /\ pc[t] # "proc_spawn"
    /\ IF kind = "stdio" THEN attaches > 0 /\ ineof /\ AllBlank(inbuf)
       ELSE /\ EndsOn(t) # 0
            /\ ~Running(EndsOn(t))
            /\ AllBlank(child[EndsOn(t)].out)

\* C26: receive() on the stream and process transports yields nothing for
\* a blank line and does not end because of one: a step that takes only
\* blank lines yields nothing, logs nothing (unless readline() is refused
\* because another task is reading), and the call goes on unless the
\* transport is closed, the stream has ended or readline() was refused; a
\* message that is yielded is that of the one line taken that is not
\* blank, the blank lines before it dropped.  An empty read ends the call
\* normally: nothing is yielded and nothing is logged.
C26_BlankSkippedEofEnds ==
    [][\A t \in Tasks :
          /\ (StreamReceiveStep(t) /\ TookOnlyBlank) =>
                 /\ ~AtYield(t)
                 /\ yielded'[t] \in {yielded[t], <<>>}
                 /\ errlog' = errlog \/ OtherReading(t)
                 /\ pc'[t] = "idle" =>
                        closed \/ StreamEnded \/ errlog' = errlog + 1
          /\ (StreamReceiveStep(t) /\ AtYield(t)) =>
                 \E c \in Streams :
                     /\ Taken(c) # <<>>
                     /\ AllBlank(SubSeq(Taken(c), 1, Len(Taken(c)) - 1))
                     /\ ~Blank(Taken(c)[Len(Taken(c))])
                     /\ yielded'[t][Len(yielded'[t])] =
                            JsonLoads(Strip(Taken(c)[Len(Taken(c))]))
                     /\ \A d \in Streams \ {c} : AllBlank(Taken(d))
          /\ (StreamReceiveStep(t) /\ ~closed /\ EmptyRead(t)) =>
                 /\ pc'[t] = "idle" /\ ret'[t] = "ok"
                 /\ errlog' = errlog
                 /\ yielded'[t] \in {yielded[t], <<>>}]_vars

\* the only call made is a receive() on stdin: the peer wrote a blank line
\* and then its second message and ended the stream; the call has yielded
\* that message alone, logged nothing, and has ended
C26_Witness ==
    \E t \in Tasks :
        /\ kind = "stdio" /\ calls = 1 /\ op[t] = "receive"
        /\ pc[t] = "idle" /\ ret[t] = "ok"
        /\ produced = 2 /\ ineof /\ inbuf = <<>>
        /\ yielded[t] = <<InMsg(1)>>
        /\ errlog = 0

(* ------------------------- set-up of the reader ----------------------- *)
\* the calls of _setup() that are connecting the pipe, or have done so
Setups == attaches + Cardinality({t \in Tasks : pc[t] = "stdio_setup"})

\* C27: the StdioTransport has no reader and no pipe connected before its
\* first call; send() creates no reader and connects nothing; the first
\* receive() (the one that finds no reader) creates the reader and goes to
\* connect the pipe, and the pipe is connected by a receive() only; every
\* later receive(), one that overlaps the first included, finds the reader
\* and sets nothing up: at most one set-up is ever started, so the pipe is
\* connected once at most.
C27_SetupLazyOnce ==
    /\ [](kind = "stdio" =>
              /\ calls = 0 => (~reader /\ attaches = 0)
              /\ Setups <= 1
              /\ Setups > 0 => reader)
    /\ [][\A t \in Tasks :
          /\ \A m \in Msgs :
                StdioSend(t, m) => (reader' = reader /\ Setups' = Setups)
          /\ (StdioReceive(t) /\ ~reader) =>
                 (reader' /\ pc'[t] = "stdio_setup" /\ attaches' = attaches)
          /\ (StdioReceive(t) /\ reader) =>
                 (reader' /\ pc'[t] # "stdio_setup" /\ Setups' = Setups)
          /\ (StdioSetupDone(t) /\ op[t] = "receive") =>
                 (attaches' = 1 /\ Setups' = Setups)
          /\ attaches' # attaches =>
                 \E u \in Tasks : StdioSetupDone(u) /\ op[u] = "receive"]_vars

\* two receive() calls are under way at once, one at a yield and one in
\* readline(), and the pipe has been connected once
C27_Witness ==
    /\ kind = "stdio" /\ reader /\ attaches = 1
    /\ op["t1"] = "receive" /\ op["t2"] = "receive"
    /\ {pc["t1"], pc["t2"]} = {"stdio_yield", "stdio_read"}

(* --------------------------- the HTTP session ------------------------- *)
\* a step of task t inside receive() on the HTTPTransport
HTTPReceiveStep(t) ==
    HTTPReceive(t) \/ HTTPGot(t) \/ HTTPTimeout(t) \/ HTTPResume(t)

\* C28: an HTTPTransport has no session before its first call and never
\* more than one; a session is created by a send() only, one that finds
\* none on a transport that is not closed; a send() that finds a session
\* posts with it and creates none, overlapping sends included; close()
\* closes the session if there is one; no step of receive() creates or
\* changes a session.
C28_OneSession ==
    /\ [](kind = "http" =>
              /\ sessions <= 1
              /\ session = "none" <=> sessions = 0
              /\ calls = 0 => session = "none")
    /\ [][\A t \in Tasks :
          /\ \A m \in Msgs :
                (HTTPSend(t, m) /\ ~closed) =>
                    /\ posts' = posts + 1
                    /\ IF session = "none"
                       THEN session' = "open" /\ sessions' = 1
                       ELSE UNCHANGED <<session, sessions>>
          /\ sessions' # sessions =>
                 \E u \in Tasks, m \in Msgs : HTTPSend(u, m) /\ ~closed
          /\ HTTPReceiveStep(t) => UNCHANGED <<session, sessions>>
          /\ (HTTPClose(t) /\ session # "none") =>
                 (session' = "closed" /\ sessions' = sessions)
          /\ (HTTPClose(t) /\ session = "none") =>
                 UNCHANGED <<session, sessions>>]_vars

\* two send() calls have posted, with the one session that was created,
\* and a close() has closed it and returned
C28_Witness ==
    /\ kind = "http" /\ posts = 2 /\ sessions = 1
    /\ session = "closed" /\ closes = 1

(* ------------------------ framing on the pipe ------------------------- *)
\* the data of a sequence of writes, one after the other
RECURSIVE Flatten(_)
Flatten(ls) == IF ls = <<>> THEN <<>> ELSE Head(ls) \o Flatten(Tail(ls))
\* the data the writer to child c's stdin has accepted, as the child reads it
Stream(ch, c) == Flatten(Chan(ch, c))
\* where the first line of data s ends; 0 when s holds no newline
FirstNewline(s) ==
    IF \E i \in 1..Len(s) : s[i] = "\n"
    THEN CHOOSE i \in 1..Len(s) :
             s[i] = "\n" /\ \A j \in 1..(i - 1) : s[j] # "\n"
    ELSE 0
\* the messages that the lines of s decode to, in order; ParseError for a
\* line that is not one message, or for data after the last newline
RECURSIVE Decoded(_)
Decoded(s) ==
    IF s = <<>> THEN <<>>
    ELSE IF FirstNewline(s) = 0 THEN <<ParseError>>
    ELSE <<JsonLoads(Strip(SubSeq(s, 1, FirstNewline(s))))>>
             \o Decoded(SubSeq(s, FirstNewline(s) + 1, Len(s)))
\* every line of s is one complete message
Framed(s) == \A i \in 1..Len(Decoded(s)) : Decoded(s)[i] \in Msgs

\* C29: what a child's stdin has been handed is at every moment a
\* sequence of complete lines, each one message, whichever sends overlap;
\* and the step of a send(m) that writes appends the whole line of m, so
\* the messages on the pipe are those before it and then m.
C29_FramingKept ==
    /\ [](\A c \in DOMAIN child : Framed(Stream(child, c)))
    /\ [][\A t \in Tasks :
          /\ \A m \in Msgs :
                (ProcSend(t, m) /\ ~closed /\ process # 0 /\ Written(t)) =>
                    Decoded(Stream(child', process)) =
                        Append(Decoded(Stream(child, process)), m)
          /\ (ProcSpawned(t) /\ op[t] = "send" /\ Written(t)) =>
                 Decoded(Stream(child', process')) = <<arg[t]>>]_vars

\* both tasks wait in drain() of their send() calls, and the writer holds
\* the lines of three messages
C29_Witness ==
    /\ kind = "process" /\ process # 0
    /\ \A t \in Tasks : op[t] = "send" /\ pc[t] = "proc_drain"
    /\ Len(Decoded(Stream(child, process))) = 3
    /\ Framed(Stream(child, process))

(* ----------------------- signals sent by close() ---------------------- *)
\* C30: whatever close() calls are made, overlapping ones included, no
\* child is sent more than one termination signal or more than one kill.
C30_AtMostOneSignal ==
    \A c \in DOMAIN child : child[c].terms <= 1 /\ child[c].kills <= 1
====
